---- MODULE Spec2Model ----
(***************************************************************************)
(* Ride-dispatch backend: the offer matcher (services/matching), the ride  *)
(* lifecycle (services/ride_management), the offer expiry paths (Celery    *)
(* task and sweeper) and the driver status update.                         *)
(*                                                                         *)
(* No handler takes a row lock (there is no select_for_update in the       *)
(* repository), so a handler is modelled by its steps: the step that reads *)
(* and validates, then the step(s) that write.  Between the steps of one   *)
(* handler other handlers may run.  Running the steps of a handler back to *)
(* back is the sequential execution of that handler.                       *)
(***************************************************************************)
EXTENDS Integers, Sequences, FiniteSets, TLC

\* ------------------------------------------------------------------ bounds
NumDrivers == 3
NumPassengers == 1
MaxRides == 2
MaxInflight == 2
MaxCalls == 4

NULL == 0

\* who started an expiry: the scheduled task or the sweeper
BY_TASK == 1
BY_SWEEPER == 2

\* the entry point of a passenger cancellation: the lifecycle service
\* (cancel_ride_by_passenger) or the routed view (rides/views.py cancel_ride)
VIA_SERVICE == 1
VIA_VIEW == 2
CancelPaths == {VIA_SERVICE, VIA_VIEW}

Drivers == 1..NumDrivers
Passengers == (NumDrivers + 1)..(NumDrivers + NumPassengers)
Users == Drivers \cup Passengers
RideIds == 1..MaxRides

\* broadcast_radius values a passenger may send, in distance units
Radii == {0, NumDrivers - 1, NumDrivers}
\* cancellation reasons a passenger / a driver may send
PassengerReason == "changed mind"
DriverReason == "Cancelled by driver"

VARIABLES
    rides,      \* table ride_requests: sequence indexed by ride id
    offers,     \* table RideOffer: (ride, driver) -> row, status "none" = no row
    profiles,   \* DriverProfile.status per driver
    completed,  \* User.completed_rides per user
    timers,     \* offers that have an expire_ride_offer_task scheduled
    inflight,   \* handlers that have read and validated but not yet written
    last,       \* the handler call that returned last and its result
    out,        \* the messages pushed by the last step
    calls       \* the number of handler calls started so far

VARIABLES
    pushed      \* the events the passenger's socket has received: (ride, type)

db == <<rides, offers, profiles, completed>>

\* ------------------------------------------------------------------ realtime state
\* Positions are points of a grid of 100 m steps (lat, lon >= 0).  A geohash
\* tile of precision 6 is about 0.6 km high and 1.2 km wide: 6 by 12 grid steps.
TileH == 6
TileW == 12
\* bits of a geohash: longitude and latitude bits alternate, longitude first
GeohashBits == 8
WorldH == TileH * 16
WorldW == TileW * 16

\* the viewports a passenger may send: centres that fill one tile, and radii
\* of 300 m, 1500 m (the client's default) and 3000 m
CentreLats == (7 * TileH)..(8 * TileH - 1)
CentreLons == (8 * TileW)..(9 * TileW - 1)
ViewRadii == {3, 15, 30}

\* time.time() in ticks of 100 ms: min_interval is 0.5 s, a window is 1 s
MinInterval == 5
Window == 10
\* the clock when the process starts, and the last tick that is explored
Epoch == 10
MaxTime == 22

\* the WebSocket endpoints of realtime/routing.py
Kinds == {"driver", "passenger", "ride"}
\* a user may hold several connections to one endpoint (a reconnect, a second
\* tab): each has its own channel name
MaxChannels == 2
Slots == 1..MaxChannels
Channels == Kinds \X Users \X Slots
NoChannel == <<"none", NULL, 0>>
\* the drivers whose realtime traffic is explored
RtDrivers == 1..2

VARIABLES
    geo_in,                 \* the arguments of a call of get_covering_geohashes
    geo_out,                \* its result, {} before the call returns
    now,                    \* time.time()
    last_broadcast_times,   \* _last_broadcast_times, 0 = no entry
    limiter_passed,         \* per driver, the times a non-force broadcast passed the limiter
    index,                  \* Redis drivers:geo and driver:meta:<id>, per driver
    subs,                   \* Redis passenger:subs:<id>, per passenger
    delivered,              \* what the last broadcast sent on passenger channels
    report,                 \* what the last broadcast returned
    location,               \* DriverProfile.current_latitude / current_longitude
    conns,                  \* the open WebSocket channels
    joined_groups,          \* consumer.joined_groups, per channel
    groups,                 \* channel layer: (group, channel) memberships
    written_by,             \* per driver, the channel that wrote the index entry last
    track                   \* per driver, in metres along a street: the position
                            \* stored in the index and the last one broadcast

\* the realtime state outside the geohash kernel
realtime == <<now, last_broadcast_times, limiter_passed, index, subs, delivered, report,
              location, conns, joined_groups, groups, written_by>>
\* everything but the tables of the database
rtvars == <<geo_in, geo_out, track, realtime>>
\* the ride handlers' state but the driver profiles
ridestate == <<rides, offers, completed, timers, inflight, last, out, calls, pushed>>
vars == <<ridestate, profiles, rtvars>>

\* calculate_distance(lat1, lon1, lat2, lon2) <= r, on the grid
Within(lat1, lon1, lat2, lon2, r) ==
    (lat1 - lat2) * (lat1 - lat2) + (lon1 - lon2) * (lon1 - lon2) <= r * r

\* encode_geohash's loop: halve the longitude range, then the latitude range,
\* in turn, one bit for each halving
RECURSIVE Bisect(_, _, _, _, _, _, _, _)
Bisect(lat, lon, lat_lo, lat_hi, lon_lo, lon_hi, is_lon, n) ==
    IF n = 0 THEN <<>>
    ELSE IF is_lon
    THEN LET mid == (lon_lo + lon_hi) \div 2
         IN  IF lon >= mid
             THEN <<1>> \o Bisect(lat, lon, lat_lo, lat_hi, mid, lon_hi, FALSE, n - 1)
             ELSE <<0>> \o Bisect(lat, lon, lat_lo, lat_hi, lon_lo, mid, FALSE, n - 1)
    ELSE LET mid == (lat_lo + lat_hi) \div 2
         IN  IF lat >= mid
             THEN <<1>> \o Bisect(lat, lon, mid, lat_hi, lon_lo, lon_hi, TRUE, n - 1)
             ELSE <<0>> \o Bisect(lat, lon, lat_lo, mid, lon_lo, lon_hi, TRUE, n - 1)

encode_geohash(lat, lon) == Bisect(lat, lon, 0, WorldH, 0, WorldW, TRUE, GeohashBits)

\* the cell itself and its prefix one shorter; no neighbouring cell is computed
get_geohash_neighbors(gh) ==
    {gh} \cup (IF Len(gh) > 1 THEN {SubSeq(gh, 1, Len(gh) - 1)} ELSE {})

\* the cells of a 7 x 7 grid of samples that spans the square around the disc
get_covering_geohashes(lat, lon, radius) ==
    LET steps == 3
    IN  {encode_geohash(lat + (lat_step * radius) \div steps,
                        lon + (lon_step * radius) \div steps) :
            lat_step \in (0 - steps)..steps, lon_step \in (0 - steps)..steps}

NoInput == [lat |-> 0, lon |-> 0, radius |-> 0]

\* rows of the index and of the subscriptions; status "none" = no row
NoEntry == [lat |-> 0, lon |-> 0, status |-> "none"]
Entry(lat, lon, status) == [lat |-> lat, lon |-> lon, status |-> status]
NoSub == [channel |-> NoChannel, lat |-> 0, lon |-> 0, radius |-> 0, geohashes |-> {}]
NoLocation == [lat |-> 0, lon |-> 0, set |-> FALSE]
NoTrack == [stored |-> 0, sent |-> 0, set |-> FALSE]
Report(op, d, lat, lon, broadcasted, reason) ==
    [op |-> op, driver |-> d, lat |-> lat, lon |-> lon,
     broadcasted |-> broadcasted, reason |-> reason]

RealtimeInit ==
    /\ now = Epoch
    /\ last_broadcast_times = [d \in Drivers |-> 0]
    /\ limiter_passed = [d \in Drivers |-> {}]
    /\ index = [d \in Drivers |-> NoEntry]
    /\ subs = [p \in Passengers |-> NoSub]
    /\ delivered = {}
    /\ report = Report("none", NULL, 0, 0, FALSE, "")
    /\ location = [d \in Drivers |-> NoLocation]
    /\ conns = {}
    /\ joined_groups = [ch \in Channels |-> {}]
    /\ groups = {}
    /\ written_by = [d \in Drivers |-> NoChannel]

RtInit ==
    /\ geo_in = NoInput
    /\ geo_out = {}
    /\ track = [d \in Drivers |-> NoTrack]
    /\ RealtimeInit

\* ------------------------------------------------------------------ rows
NoOffer == [status |-> "none", order |-> 0, sent_at |-> "null", responded_at |-> FALSE]

NewOffer(ord) ==
    [status |-> "pending", order |-> ord, sent_at |-> "null", responded_at |-> FALSE]

NewRide(p, rad) ==
    [passenger |-> p, driver |-> NULL, status |-> "pending", broadcast_radius |-> rad,
     accepted_at |-> FALSE, completed_at |-> FALSE, cancelled_at |-> FALSE,
     cancellation_reason |-> ""]

Push(grp, id, type, r) == [grp |-> grp, id |-> id, type |-> type, ride |-> r]

Result(op, who, r, code) == [op |-> op, who |-> who, ride |-> r, code |-> code]

\* a handler in progress: its caller and ride, the row it loaded (tgt), the
\* offer dispatch_next_offer selected (pick), its position and its argument
Call(op, who, r, tgt, pick, pc, arg) ==
    [op |-> op, who |-> who, ride |-> r, tgt |-> tgt, pick |-> pick, pc |-> pc, arg |-> arg]

\* ------------------------------------------------------------------ queries
\* distance of the driver's stored location from the pickup point
calculate_distance(d) == d

RideExists(r) == r \in 1..Len(rides)

OffersOf(offs, r) == {d \in Drivers : offs[<<r, d>>].status # "none"}

PendingOf(offs, r) == {d \in Drivers : offs[<<r, d>>].status = "pending"}

Unsent(offs, r) == {d \in PendingOf(offs, r) : offs[<<r, d>>].sent_at = "null"}

SentOf(offs, r) == {d \in OffersOf(offs, r) : offs[<<r, d>>].sent_at # "null"}

\* the same query ordered the other way round: the highest order first
NextOffer_last(offs, r) ==
    IF Unsent(offs, r) = {} THEN NULL
    ELSE CHOOSE d \in Unsent(offs, r) :
            \A e \in Unsent(offs, r) : offs[<<r, d>>].order >= offs[<<r, e>>].order

\* .filter(status="pending", sent_at__isnull=True).order_by("order").first()
NextOffer(offs, r) ==
    IF Unsent(offs, r) = {} THEN NULL
    ELSE CHOOSE d \in Unsent(offs, r) :
            \A e \in Unsent(offs, r) : offs[<<r, d>>].order <= offs[<<r, e>>].order

check_active_ride(p) ==
    \E r \in 1..Len(rides) :
        /\ rides[r].passenger = p
        /\ rides[r].status \in {"pending", "accepted", "in_progress"}

\* ------------------------------------------------------------------ matcher
\* the distance of a driver whose profile has no stored location
NoDistance == -1

\* the filter without the inclusive bound: distance < broadcast_radius
Eligible_strict(profs, dist, rad) ==
    {d \in Drivers : profs[d] = "available" /\ dist[d] # NoDistance /\ dist[d] < rad}

\* the profiles build_offers_for_ride keeps: available, with a stored
\* location, at distance <= broadcast_radius; dist[d] is the distance of
\* driver d's stored location from the pickup, NoDistance without one
Eligible(profs, dist, rad) ==
    {d \in Drivers : profs[d] = "available" /\ dist[d] # NoDistance /\ dist[d] <= rad}

\* the position of d after candidates.sort(key=distance): the sort is stable,
\* equal distances keep the order of the query
RankIn(cand, dist, d) ==
    Cardinality({e \in cand :
        \/ dist[e] < dist[d]
        \/ (dist[e] = dist[d] /\ e < d)})

\* ride.offers.all().delete(), then one RideOffer per candidate, order = position
Queue(offs, r, cand, dist) ==
    [o \in RideIds \X Drivers |->
        IF o[1] # r THEN offs[o]
        ELSE IF o[2] \in cand THEN NewOffer(RankIn(cand, dist, o[2]))
        ELSE NoOffer]

\* in the ride handlers every driver has a stored location, driver d at
\* distance d from every pickup
StoredDistance == [d \in Drivers |-> calculate_distance(d)]

Candidates(rad) == Eligible(profiles, StoredDistance, rad)

Rank(cand, d) == RankIn(cand, StoredDistance, d)

\* the offers table after build_offers_for_ride(ride r)
build_offers_for_ride(offs, r, rad) == Queue(offs, r, Candidates(rad), StoredDistance)

\* the offers table after dispatch_next_offer marks offer (r, d) as sent
MarkSent(offs, r, d) ==
    [offs EXCEPT ![<<r, d>>].sent_at = "fresh"]

\* ------------------------------------------------------------------ init
Init ==
    /\ rides = <<>>
    /\ offers = [o \in RideIds \X Drivers |-> NoOffer]
    /\ profiles = [d \in Drivers |-> "available"]
    /\ completed = [u \in Users |-> 0]
    /\ timers = {}
    /\ inflight = {}
    /\ last = Result("none", NULL, NULL, "OK")
    /\ out = {}
    /\ calls = 0
    /\ pushed = {}
    /\ RtInit

CanStart == Cardinality(inflight) < MaxInflight /\ calls < MaxCalls

Creating == {c \in inflight : c.op = "create"}

\* ------------------------------------------------------------------ create_ride_request
CreateBegin(p, rad) ==
    /\ CanStart
    /\ Len(rides) + Cardinality(Creating) < MaxRides
    /\ out' = {}
    /\ UNCHANGED <<rides, offers, profiles, completed, timers>>
    /\ IF check_active_ride(p)
       THEN /\ last' = Result("create", p, NULL, "ACTIVE_RIDE_EXISTS")
            /\ UNCHANGED inflight
       ELSE /\ inflight' = inflight \cup {Call("create", p, NULL, NULL, NULL, "checked", rad)}
            /\ UNCHANGED last
    /\ calls' = calls + 1

CreateCommit(c) ==
    LET r == Len(rides) + 1
        built == build_offers_for_ride(offers, r, c.arg)
        first == NextOffer(built, r)
    IN  /\ c.op = "create"
        /\ rides' = Append(rides, NewRide(c.who, c.arg))
        /\ IF first # NULL
           THEN /\ offers' = MarkSent(built, r, first)
                /\ timers' = timers \cup {<<r, first>>}
                /\ out' = {Push("driver", first, "ride_offer", r)}
           ELSE /\ offers' = built
                /\ timers' = timers
                /\ out' = {Push("user", c.who, "no_drivers_available", r)}
        /\ inflight' = inflight \ {c}
        /\ last' = Result("create", c.who, r, "OK")
        /\ UNCHANGED <<profiles, completed, calls>>

\* ------------------------------------------------------------------ accept_ride
\* the result of the validation of accept_ride(d, r) against the current rows
\* the checks without the status='pending' filter of the ride lookup
AcceptCheck_anystatus(d, r) ==
    IF profiles[d] # "available" THEN "DRIVER_NOT_AVAILABLE"
    ELSE IF offers[<<r, d>>].status \in {"none", "pending"} THEN "OK"
    ELSE IF offers[<<r, d>>].status = "expired" THEN "OFFER_EXPIRED"
    ELSE "OFFER_NOT_FOUND"

\* accept_ride's validation: the error it raises, or OK
AcceptCheck(d, r) ==
    IF profiles[d] # "available" THEN "DRIVER_NOT_AVAILABLE"
    ELSE IF rides[r].status # "pending" THEN "RIDE_NOT_AVAILABLE"
    ELSE IF offers[<<r, d>>].status = "none" THEN "OK"
    ELSE IF offers[<<r, d>>].status = "pending" THEN "OK"
    ELSE IF offers[<<r, d>>].status = "expired" THEN "OFFER_EXPIRED"
    ELSE "OFFER_NOT_FOUND"

AcceptBegin(d, r) ==
    /\ CanStart
    /\ RideExists(r)
    /\ out' = {}
    /\ UNCHANGED <<rides, offers, profiles, completed, timers>>
    /\ IF AcceptCheck(d, r) # "OK"
       THEN /\ last' = Result("accept", d, r, AcceptCheck(d, r))
            /\ UNCHANGED inflight
       ELSE /\ inflight' = inflight \cup
                    {Call("accept", d, r,
                          IF offers[<<r, d>>].status = "pending" THEN d ELSE NULL,
                          NULL, "checked", NULL)}
            /\ UNCHANGED last
    /\ calls' = calls + 1

\* the offers table after accept_ride's two offer writes
AcceptOffers(offs, r, d) ==
    [o \in RideIds \X Drivers |->
        IF o = <<r, d>>
        THEN [offs[o] EXCEPT !.status = "accepted", !.responded_at = TRUE]
        ELSE IF o[1] = r /\ offs[o].status = "pending"
        THEN [offs[o] EXCEPT !.status = "expired", !.responded_at = TRUE]
        ELSE offs[o]]

AcceptCommit(c) ==
    /\ c.op = "accept"
    /\ rides' = [rides EXCEPT ![c.ride].driver = c.who,
                              ![c.ride].status = "accepted",
                              ![c.ride].accepted_at = TRUE]
    /\ offers' = IF c.tgt # NULL THEN AcceptOffers(offers, c.ride, c.who) ELSE offers
    /\ profiles' = [profiles EXCEPT ![c.who] = "busy"]
    /\ out' = {Push("user", rides[c.ride].passenger, "ride_accepted", c.ride)}
    /\ inflight' = inflight \ {c}
    /\ last' = Result("accept", c.who, c.ride, "OK")
    /\ UNCHANGED <<completed, timers>>
    /\ UNCHANGED calls

\* ------------------------------------------------------------------ advance
\* the caller's check without its test for pending offers: nothing was sent
NothingLeft_unsent(offs, r) == Unsent(offs, r) = {}

\* dispatch_next_offer found nothing to send; the caller's check
\* "not dispatched and no pending offer" and its write of no_drivers
NothingLeft(offs, r) == PendingOf(offs, r) = {}

\* second step of dispatch_next_offer: mark sent, push ride_offer, schedule expiry
DispatchSend(c) ==
    /\ c.pc = "picked"
    /\ offers' = MarkSent(offers, c.ride, c.pick)
    /\ timers' = timers \cup {<<c.ride, c.pick>>}
    /\ out' = {Push("driver", c.pick, "ride_offer", c.ride)}
    /\ inflight' = inflight \ {c}
    /\ last' = Result(c.op, c.who, c.ride, "OK")
    /\ UNCHANGED <<rides, profiles, completed>>
    /\ UNCHANGED calls

\* ------------------------------------------------------------------ reject_ride_offer
RejectCheck(d, r) ==
    IF rides[r].status # "pending" THEN "RIDE_NOT_AVAILABLE"
    ELSE IF offers[<<r, d>>].status # "pending" THEN "OFFER_NOT_FOUND"
    ELSE "OK"

RejectBegin(d, r) ==
    /\ CanStart
    /\ RideExists(r)
    /\ out' = {}
    /\ UNCHANGED <<rides, offers, profiles, completed, timers>>
    /\ IF RejectCheck(d, r) # "OK"
       THEN /\ last' = Result("reject", d, r, RejectCheck(d, r))
            /\ UNCHANGED inflight
       ELSE /\ inflight' = inflight \cup {Call("reject", d, r, d, NULL, "checked", NULL)}
            /\ UNCHANGED last
    /\ calls' = calls + 1

RejectWrite(c) ==
    LET offs == [offers EXCEPT ![<<c.ride, c.tgt>>].status = "rejected",
                               ![<<c.ride, c.tgt>>].responded_at = TRUE]
        pick == NextOffer(offs, c.ride)
    IN  /\ c.op = "reject"
        /\ c.pc = "checked"
        /\ offers' = offs
        /\ UNCHANGED <<profiles, completed, timers, calls>>
        /\ IF pick # NULL
           THEN /\ inflight' = (inflight \ {c}) \cup {[c EXCEPT !.pc = "picked", !.pick = pick]}
                /\ out' = {}
                /\ UNCHANGED <<rides, last>>
           ELSE /\ inflight' = inflight \ {c}
                /\ last' = Result("reject", c.who, c.ride, "OK")
                /\ IF NothingLeft(offs, c.ride)
                   THEN /\ rides' = [rides EXCEPT ![c.ride].status = "no_drivers"]
                        /\ out' = {Push("user", rides[c.ride].passenger,
                                        IF SentOf(offs, c.ride) # {}
                                        THEN "ride_expired" ELSE "no_drivers_available",
                                        c.ride)}
                   ELSE /\ out' = {}
                        /\ UNCHANGED rides

\* ------------------------------------------------------------------ expiry
Resolved(o) == offers[o].status # "pending" \/ offers[o].responded_at

\* the expiry task without its test of the offer's status: it always expires
expire_ride_offer_task_unchecked(o) ==
    /\ o \in timers
    /\ calls < MaxCalls
    /\ calls' = calls + 1
    /\ offers[o].sent_at = "stale"
    /\ timers' = timers \ {o}
    /\ out' = {}
    /\ UNCHANGED <<rides, offers, profiles, completed, last>>
    /\ Cardinality(inflight) < MaxInflight
    /\ inflight' = inflight \cup {Call("expire", NULL, o[1], o[2], NULL, "checked", BY_TASK)}

\* expire_ride_offer_task(offer_id): load the offer, expire it when still pending
expire_ride_offer_task(o) ==
    /\ o \in timers
    /\ calls < MaxCalls
    /\ calls' = calls + 1
    /\ offers[o].sent_at = "stale"
    /\ timers' = timers \ {o}
    /\ out' = {}
    /\ UNCHANGED <<rides, offers, profiles, completed>>
    /\ IF Resolved(o)
       THEN /\ last' = Result("expire", NULL, o[1], "NOOP")
            /\ UNCHANGED inflight
       ELSE /\ Cardinality(inflight) < MaxInflight
            /\ inflight' = inflight \cup {Call("expire", NULL, o[1], o[2], NULL, "checked", BY_TASK)}
            /\ UNCHANGED last

\* the same task as the worker runs it when its countdown is over, whatever
\* number of calls the clients have made
expire_ride_offer_task_due(o) ==
    /\ o \in timers
    /\ offers[o].sent_at = "stale"
    /\ timers' = timers \ {o}
    /\ out' = {}
    /\ UNCHANGED <<rides, offers, profiles, completed, calls>>
    /\ IF Resolved(o)
       THEN /\ last' = Result("expire", NULL, o[1], "NOOP")
            /\ UNCHANGED inflight
       ELSE /\ Cardinality(inflight) < MaxInflight
            /\ inflight' = inflight \cup {Call("expire", NULL, o[1], o[2], NULL, "checked", BY_TASK)}
            /\ UNCHANGED last

\* process_offer_timeouts: the stale offers the sweeper's query returns
StaleOffers ==
    {o \in RideIds \X Drivers : offers[o].status = "pending" /\ offers[o].sent_at = "stale"}

Sweeping == {c \in inflight : c.op = "expire" /\ c.arg = BY_SWEEPER}

process_offer_timeouts ==
    /\ Sweeping = {}
    /\ calls < MaxCalls
    /\ calls' = calls + 1
    /\ StaleOffers # {}
    /\ Cardinality(inflight) + Cardinality(StaleOffers) <= MaxInflight
    /\ inflight' = inflight \cup
            {Call("expire", NULL, o[1], o[2], NULL, "checked", BY_SWEEPER) : o \in StaleOffers}
    /\ out' = {}
    /\ UNCHANGED <<rides, offers, profiles, completed, timers, last>>

\* expire_offer_and_dispatch(offer), up to dispatch_next_offer's query
ExpireWrite(c) ==
    LET offs == [offers EXCEPT ![<<c.ride, c.tgt>>].status = "expired",
                               ![<<c.ride, c.tgt>>].responded_at = TRUE]
        pick == NextOffer(offs, c.ride)
        told == {Push("driver", c.tgt, "ride_expired", c.ride)}
    IN  /\ c.op = "expire"
        /\ c.pc = "checked"
        \* the sweeper handles its offers one after the other
        /\ c.arg = BY_SWEEPER => \A s \in Sweeping : s.pc = "checked"
        /\ offers' = offs
        /\ UNCHANGED <<profiles, completed, timers, calls>>
        /\ IF pick # NULL
           THEN /\ inflight' = (inflight \ {c}) \cup {[c EXCEPT !.pc = "picked", !.pick = pick]}
                /\ out' = told
                /\ UNCHANGED <<rides, last>>
           ELSE /\ inflight' = inflight \ {c}
                /\ last' = Result("expire", NULL, c.ride, "OK")
                /\ IF NothingLeft(offs, c.ride)
                   THEN /\ rides' = [rides EXCEPT ![c.ride].status = "no_drivers"]
                        /\ out' = told \cup
                                  {Push("user", rides[c.ride].passenger, "ride_expired", c.ride)}
                   ELSE /\ out' = told
                        /\ UNCHANGED rides

\* time passes: every offer sent less than the timeout ago is now older than it
TimePasses ==
    /\ \E o \in RideIds \X Drivers : offers[o].sent_at = "fresh"
    /\ offers' = [o \in RideIds \X Drivers |->
                    IF offers[o].sent_at = "fresh"
                    THEN [offers[o] EXCEPT !.sent_at = "stale"] ELSE offers[o]]
    /\ out' = {}
    /\ UNCHANGED <<rides, profiles, completed, timers, inflight, last>>
    /\ UNCHANGED calls

\* ------------------------------------------------------------------ cancel_ride_by_passenger
CancelCheck(p, r) ==
    IF rides[r].passenger # p THEN "RIDE_NOT_FOUND"
    ELSE IF rides[r].status \in {"completed", "cancelled_user", "cancelled_driver"}
    THEN "RIDE_NOT_AVAILABLE"
    ELSE "OK"

CancelByPassengerBegin(p, r, via) ==
    /\ CanStart
    /\ RideExists(r)
    /\ out' = {}
    /\ UNCHANGED <<rides, offers, profiles, completed, timers>>
    /\ IF CancelCheck(p, r) # "OK"
       THEN /\ last' = Result("cancel_user", p, r, CancelCheck(p, r))
            /\ UNCHANGED inflight
       ELSE /\ inflight' = inflight \cup
                    {Call("cancel_user", p, r, rides[r].driver, NULL, "checked", via)}
            /\ UNCHANGED last
    /\ calls' = calls + 1

CancelByPassengerCommit(c) ==
    /\ c.op = "cancel_user"
    /\ rides' = [rides EXCEPT ![c.ride].status = "cancelled_user",
                              ![c.ride].cancelled_at = TRUE,
                              ![c.ride].cancellation_reason = PassengerReason]
    /\ profiles' = IF c.tgt # NULL THEN [profiles EXCEPT ![c.tgt] = "available"] ELSE profiles
    /\ out' = (IF c.arg = VIA_SERVICE
               THEN {Push("ride", c.ride, "ride_cancelled", c.ride)} ELSE {}) \cup
              {Push("driver", d, "ride_cancelled", c.ride) :
                    d \in SentOf(offers, c.ride) \cup (IF c.tgt # NULL THEN {c.tgt} ELSE {})}
    /\ inflight' = inflight \ {c}
    /\ last' = Result("cancel_user", c.who, c.ride, "OK")
    /\ UNCHANGED <<offers, completed, timers>>
    /\ UNCHANGED calls

\* ------------------------------------------------------------------ complete_ride, cancel_ride_by_driver
\* the lookup without its driver=driver filter
DriverRideCheck_anydriver(d, r) ==
    IF rides[r].status = "accepted" THEN "OK" ELSE "RIDE_NOT_FOUND"

\* RideRequest.objects.get(id=ride_id, driver=driver, status='accepted')
DriverRideCheck(d, r) ==
    IF rides[r].driver = d /\ rides[r].status = "accepted" THEN "OK" ELSE "RIDE_NOT_FOUND"

CompleteBegin(d, r) ==
    /\ CanStart
    /\ RideExists(r)
    /\ out' = {}
    /\ UNCHANGED <<rides, offers, profiles, completed, timers>>
    /\ IF DriverRideCheck(d, r) # "OK"
       THEN /\ last' = Result("complete", d, r, "RIDE_NOT_FOUND")
            /\ UNCHANGED inflight
       ELSE /\ inflight' = inflight \cup {Call("complete", d, r, d, NULL, "checked", NULL)}
            /\ UNCHANGED last
    /\ calls' = calls + 1

CompleteCommit(c) ==
    /\ c.op = "complete"
    /\ rides' = [rides EXCEPT ![c.ride].status = "completed",
                              ![c.ride].completed_at = TRUE]
    /\ completed' = [completed EXCEPT ![rides[c.ride].passenger] = @ + 1,
                                      ![c.who] = @ + 1]
    /\ profiles' = [profiles EXCEPT ![c.who] = "available"]
    /\ out' = {Push("user", rides[c.ride].passenger, "ride_completed", c.ride),
               Push("ride", c.ride, "ride_completed", c.ride)}
    /\ inflight' = inflight \ {c}
    /\ last' = Result("complete", c.who, c.ride, "OK")
    /\ UNCHANGED <<offers, timers>>
    /\ UNCHANGED calls

CancelByDriverBegin(d, r) ==
    /\ CanStart
    /\ RideExists(r)
    /\ out' = {}
    /\ UNCHANGED <<rides, offers, profiles, completed, timers>>
    /\ IF DriverRideCheck(d, r) # "OK"
       THEN /\ last' = Result("cancel_driver", d, r, "RIDE_NOT_FOUND")
            /\ UNCHANGED inflight
       ELSE /\ inflight' = inflight \cup {Call("cancel_driver", d, r, d, NULL, "checked", NULL)}
            /\ UNCHANGED last
    /\ calls' = calls + 1

CancelByDriverCommit(c) ==
    /\ c.op = "cancel_driver"
    /\ rides' = [rides EXCEPT ![c.ride].status = "cancelled_driver",
                              ![c.ride].cancelled_at = TRUE,
                              ![c.ride].cancellation_reason = DriverReason]
    /\ profiles' = [profiles EXCEPT ![c.who] = "available"]
    /\ out' = {Push("user", rides[c.ride].passenger, "ride_cancelled", c.ride),
               Push("ride", c.ride, "ride_cancelled", c.ride)}
    /\ inflight' = inflight \ {c}
    /\ last' = Result("cancel_driver", c.who, c.ride, "OK")
    /\ UNCHANGED <<offers, completed, timers>>
    /\ UNCHANGED calls

\* ------------------------------------------------------------------ update_driver_status
update_driver_status(d, s) ==
    /\ calls < MaxCalls
    /\ calls' = calls + 1
    /\ profiles' = [profiles EXCEPT ![d] = s]
    /\ last' = Result("status", d, NULL, "OK")
    /\ out' = {}
    /\ UNCHANGED <<rides, offers, completed, timers, inflight>>

\* ------------------------------------------------------------------ the passenger's socket
\* BaseConsumer forwards every event sent to a group the passenger's channel
\* is in (user_<id>, and ride_<id> while tracking) to the client
PassengerReceives ==
    pushed' = pushed \cup {<<m.ride, m.type>> : m \in {x \in out' : x.grp \in {"user", "ride"}}}

\* what a step of a ride handler leaves behind outside the database
Observed == PassengerReceives /\ UNCHANGED rtvars

Next ==
    \/ \E p \in Passengers, rad \in Radii : CreateBegin(p, rad) /\ Observed
    \/ \E c \in inflight : CreateCommit(c) /\ Observed
    \/ \E d \in Drivers, r \in RideIds : AcceptBegin(d, r) /\ Observed
    \/ \E c \in inflight : AcceptCommit(c) /\ Observed
    \/ \E d \in Drivers, r \in RideIds : RejectBegin(d, r) /\ Observed
    \/ \E c \in inflight : RejectWrite(c) /\ Observed
    \/ \E c \in inflight : DispatchSend(c) /\ Observed
    \/ \E o \in RideIds \X Drivers : expire_ride_offer_task(o) /\ Observed
    \/ process_offer_timeouts /\ Observed
    \/ \E c \in inflight : ExpireWrite(c) /\ Observed
    \/ TimePasses /\ Observed
    \/ \E p \in Passengers, r \in RideIds, via \in CancelPaths : CancelByPassengerBegin(p, r, via) /\ Observed
    \/ \E c \in inflight : CancelByPassengerCommit(c) /\ Observed
    \/ \E d \in Drivers, r \in RideIds : CompleteBegin(d, r) /\ Observed
    \/ \E c \in inflight : CompleteCommit(c) /\ Observed
    \/ \E d \in Drivers, r \in RideIds : CancelByDriverBegin(d, r) /\ Observed
    \/ \E c \in inflight : CancelByDriverCommit(c) /\ Observed
    \/ \E d \in Drivers, s \in {"available", "offline", "busy"} : update_driver_status(d, s) /\ Observed

Spec == Init /\ [][Next]_vars

\* ------------------------------------------------------------------ fair execution
\* The matcher with its expiry callbacks run by a worker: every scheduled
\* expiry task runs once its countdown is over, and every handler that has
\* started finishes.  Clients (passenger, drivers) act or not as they like.
LiveNext ==
    \/ \E p \in Passengers, rad \in Radii : CreateBegin(p, rad) /\ Observed
    \/ \E c \in inflight : CreateCommit(c) /\ Observed
    \/ \E d \in Drivers, r \in RideIds : AcceptBegin(d, r) /\ Observed
    \/ \E c \in inflight : AcceptCommit(c) /\ Observed
    \/ \E d \in Drivers, r \in RideIds : RejectBegin(d, r) /\ Observed
    \/ \E c \in inflight : RejectWrite(c) /\ Observed
    \/ \E c \in inflight : DispatchSend(c) /\ Observed
    \/ \E o \in RideIds \X Drivers : expire_ride_offer_task_due(o) /\ Observed
    \/ \E c \in inflight : ExpireWrite(c) /\ Observed
    \/ TimePasses /\ Observed
    \/ \E p \in Passengers, r \in RideIds, via \in CancelPaths : CancelByPassengerBegin(p, r, via) /\ Observed
    \/ \E c \in inflight : CancelByPassengerCommit(c) /\ Observed

Fairness ==
    /\ WF_vars(TimePasses /\ Observed)
    /\ \A o \in RideIds \X Drivers : WF_vars(expire_ride_offer_task_due(o) /\ Observed)
    /\ WF_vars(\E c \in inflight : ExpireWrite(c) /\ Observed)
    /\ WF_vars(\E c \in inflight : DispatchSend(c) /\ Observed)
    /\ WF_vars(\E c \in inflight : CreateCommit(c) /\ Observed)
    /\ WF_vars(\E c \in inflight : AcceptCommit(c) /\ Observed)
    /\ WF_vars(\E c \in inflight : RejectWrite(c) /\ Observed)
    /\ WF_vars(\E c \in inflight : CancelByPassengerCommit(c) /\ Observed)

LiveSpec == Init /\ [][LiveNext]_vars /\ Fairness

\* ------------------------------------------------------------------ push delivery failure
\* notify_passenger_event and notify_driver_event call group_send with no
\* try/except, so an exception of the channel layer propagates into the
\* handler that pushes.

\* the handlers of ride_lifecycle.py that reach an unguarded push: each runs
\* under @transaction.atomic
PushesUnguarded(c) ==
    \/ c.op \in {"accept", "complete", "cancel_driver"}
    \/ c.op = "cancel_user" /\ c.arg = VIA_SERVICE
          /\ (c.tgt # NULL \/ SentOf(offers, c.ride) # {})
    \/ c.op = "reject"
          /\ LET offs == [offers EXCEPT ![<<c.ride, c.tgt>>].status = "rejected"]
             IN  NextOffer(offs, c.ride) = NULL /\ NothingLeft(offs, c.ride)

\* group_send raises inside a lifecycle handler: the exception leaves the
\* atomic block, every write of the handler is rolled back, and the writes
\* that come after the push (accept_ride's profile write) are never reached
PushFailsRollback(c) ==
    /\ c.pc = "checked"
    /\ PushesUnguarded(c)
    /\ inflight' = inflight \ {c}
    /\ last' = Result(c.op, c.who, c.ride, "PUSH_FAILED")
    /\ out' = {}
    /\ UNCHANGED <<rides, offers, profiles, completed, timers, calls>>

\* group_send raises in expire_offer_and_dispatch when it tells the driver:
\* the offer's write is committed (no transaction), dispatch_next_offer and the
\* no_drivers write are never reached; the task logs the exception
ExpirePushFails(c) ==
    /\ c.op = "expire"
    /\ c.pc = "checked"
    /\ c.arg = BY_SWEEPER => \A s \in Sweeping : s.pc = "checked"
    /\ offers' = [offers EXCEPT ![<<c.ride, c.tgt>>].status = "expired",
                                ![<<c.ride, c.tgt>>].responded_at = TRUE]
    /\ inflight' = inflight \ {c}
    /\ last' = Result("expire", NULL, c.ride, "PUSH_FAILED")
    /\ out' = {}
    /\ UNCHANGED <<rides, profiles, completed, timers, calls>>

FailNext ==
    \/ Next
    \/ \E c \in inflight : PushFailsRollback(c) /\ Observed
    \/ \E c \in inflight : ExpirePushFails(c) /\ Observed

FailSpec == Init /\ [][FailNext]_vars

\* ------------------------------------------------------------------ broadcast fabric
\* a limiter that lets every broadcast pass
should_broadcast_always(d) == TRUE

\* _should_broadcast(driver_id), the test; the caller records the time
should_broadcast(d) == ~(now - last_broadcast_times[d] < MinInterval)

\* MIN_UPDATE_DISTANCE_METERS
MinUpdateDistance == 10

\* update_driver_location's "moved": no previous position, or one that is not
\* less than MIN_UPDATE_DISTANCE_METERS away; sq is the squared distance in
\* metres between the previous position and the new one
significant(has_prev, sq) ==
    ~has_prev \/ ~(sq < MinUpdateDistance * MinUpdateDistance)

\* on the grid of 100 m steps
Moved(d, lat, lon) ==
    significant(index[d].status # "none",
                10000 * ((index[d].lat - lat) * (index[d].lat - lat)
                         + (index[d].lon - lon) * (index[d].lon - lon)))

\* the passengers get_passengers_in_geohash returns for the cells of
\* get_geohash_neighbors, filtered by the exact distance; one message each
Fanout(type, d, lat, lon) ==
    {[channel |-> subs[p].channel, type |-> type, driver |-> d, lat |-> lat, lon |-> lon] :
        p \in {q \in Passengers :
                /\ subs[q] # NoSub
                /\ get_geohash_neighbors(encode_geohash(lat, lon)) \cap subs[q].geohashes # {}
                /\ Within(subs[q].lat, subs[q].lon, lat, lon, subs[q].radius)}}

\* broadcast_driver_location / broadcast_driver_location_async
broadcast_driver_location(d, lat, lon, status, force) ==
    IF ~force /\ ~should_broadcast(d)
    THEN /\ report' = Report("location", d, lat, lon, FALSE, "rate_limited")
         /\ delivered' = {}
         /\ UNCHANGED <<last_broadcast_times, limiter_passed, index>>
    ELSE /\ last_broadcast_times' =
                IF force THEN last_broadcast_times
                ELSE [last_broadcast_times EXCEPT ![d] = now]
         /\ limiter_passed' =
                IF force THEN limiter_passed
                ELSE [limiter_passed EXCEPT ![d] = @ \cup {now}]
         /\ index' = [index EXCEPT ![d] = Entry(lat, lon, status)]
         /\ IF ~Moved(d, lat, lon) /\ ~force
            THEN /\ report' = Report("location", d, lat, lon, FALSE, "not_moved")
                 /\ delivered' = {}
            ELSE /\ report' = Report("location", d, lat, lon, TRUE, "")
                 /\ delivered' = Fanout("driver_location_updated", d, lat, lon)

\* time passes
Tick ==
    /\ now < MaxTime
    /\ now' = now + 1
    /\ UNCHANGED <<ridestate, profiles, geo_in, geo_out, track>>
    /\ UNCHANGED <<last_broadcast_times, limiter_passed, index, subs, delivered, report,
                   location, conns, joined_groups, groups, written_by>>

\* the positions a driver reports while the limiter is observed
RatePoints == {[lat |-> 45, lon |-> 101], [lat |-> 49, lon |-> 100]}

RateNext ==
    \/ Tick
    \/ \E d \in RtDrivers, pt \in RatePoints, force \in BOOLEAN :
            /\ broadcast_driver_location(d, pt.lat, pt.lon, "available", force)
            /\ UNCHANGED <<ridestate, profiles, geo_in, geo_out, track>>
            /\ UNCHANGED <<now, subs, location, conns, joined_groups, groups, written_by>>

RateSpec == Init /\ [][RateNext]_vars

\* ------------------------------------------------------------------ passenger subscriptions
\* DriverLocationService.get_nearby_drivers: the entries GEORADIUS returns
\* around the centre whose metadata has the status asked for
get_nearby_drivers(lat, lon, radius_meters, status_filter) ==
    {d \in Drivers :
        /\ index[d].status # "none"
        /\ Within(lat, lon, index[d].lat, index[d].lon, radius_meters)
        /\ index[d].status = status_filter}

\* DriverLocationService.subscribe_passenger_to_area: store the subscription;
\* the caller sends the nearby available drivers to the channel as a snapshot
subscribe_passenger_to_area(p, ch, lat, lon, radius) ==
    /\ subs' = [subs EXCEPT ![p] =
                    [channel |-> ch, lat |-> lat, lon |-> lon, radius |-> radius,
                     geohashes |-> get_covering_geohashes(lat, lon, radius)]]
    /\ report' = Report("subscribe", p, lat, lon, FALSE, "")
    /\ delivered' = {[channel |-> ch, type |-> "driver_location_updated", driver |-> d,
                      lat |-> index[d].lat, lon |-> index[d].lon] :
                        d \in get_nearby_drivers(lat, lon, radius, "available")}

\* DriverLocationService.unsubscribe_passenger
unsubscribe_passenger(p) ==
    /\ subs' = [subs EXCEPT ![p] = NoSub]
    /\ report' = Report("unsubscribe", p, 0, 0, FALSE, "")
    /\ delivered' = {}

\* a passenger's viewport, and driver positions around it: 100 m away in the
\* same tile, 400 m away across the tile's northern edge, 3100 m away
FanCentres == {[lat |-> 45, lon |-> 100]}
FanRadii == {15, 30}
FanPoints == {[lat |-> 45, lon |-> 101], [lat |-> 49, lon |-> 100], [lat |-> 76, lon |-> 100]}

FanNext ==
    \/ \E p \in Passengers, c \in FanCentres, r \in FanRadii :
            /\ subscribe_passenger_to_area(p, <<"passenger", p, 1>>, c.lat, c.lon, r)
            /\ UNCHANGED <<ridestate, profiles, geo_in, geo_out, track>>
            /\ UNCHANGED <<now, last_broadcast_times, limiter_passed, index,
                           location, conns, joined_groups, groups, written_by>>
    \/ \E p \in Passengers :
            /\ subs[p] # NoSub
            /\ unsubscribe_passenger(p)
            /\ UNCHANGED <<ridestate, profiles, geo_in, geo_out, track>>
            /\ UNCHANGED <<now, last_broadcast_times, limiter_passed, index,
                           location, conns, joined_groups, groups, written_by>>
    \/ \E d \in RtDrivers, pt \in FanPoints, force \in BOOLEAN :
            /\ broadcast_driver_location(d, pt.lat, pt.lon, "available", force)
            /\ UNCHANGED <<ridestate, profiles, geo_in, geo_out, track>>
            /\ UNCHANGED <<now, subs, location, conns, joined_groups, groups, written_by>>

FanSpec == Init /\ [][FanNext]_vars

\* ------------------------------------------------------------------ sessions
\* user.role
Role(u) == IF u \in Drivers THEN "driver" ELSE "user"

\* the groups connect() and on_connect() join: user_<id>, and driver_<id> for a
\* driver on the driver or the ride endpoint
GroupsAtConnect(kind, u) ==
    {<<"user", u>>} \cup
    (IF Role(u) = "driver" /\ kind \in {"driver", "ride"} THEN {<<"driver", u>>} ELSE {})

\* BaseConsumer.connect with the consumer's on_connect, for the n-th channel of
\* user u on an endpoint.  The driver endpoint closes a user that is no
\* driver, the passenger endpoint one that is no passenger, before anything
\* is stored for it.
connect(kind, u, n) ==
    LET ch == <<kind, u, n>>
    IN  /\ ch \notin conns
        /\ kind = "driver" => Role(u) = "driver"
        /\ kind = "passenger" => Role(u) = "user"
        /\ conns' = conns \cup {ch}
        /\ joined_groups' = [joined_groups EXCEPT ![ch] = GroupsAtConnect(kind, u)]
        /\ groups' = groups \cup {<<g, ch>> : g \in GroupsAtConnect(kind, u)}
        /\ report' = Report("connect", u, 0, 0, FALSE, "")
        /\ delivered' = {}
        /\ UNCHANGED <<now, last_broadcast_times, limiter_passed, index, subs, location,
                       written_by>>
        /\ UNCHANGED <<ridestate, profiles, geo_in, geo_out, track>>

\* BaseConsumer.disconnect with the consumer's on_disconnect: DriverConsumer
\* removes the driver from the index, PassengerConsumer deletes the
\* subscription, both by user id; RideConsumer defines no on_disconnect
disconnect(ch) ==
    /\ ch \in conns
    /\ conns' = conns \ {ch}
    /\ groups' = groups \ {<<g, ch>> : g \in joined_groups[ch]}
    /\ joined_groups' = [joined_groups EXCEPT ![ch] = {}]
    /\ index' = IF ch[1] = "driver" THEN [index EXCEPT ![ch[2]] = NoEntry] ELSE index
    /\ written_by' = IF ch[1] = "driver"
                     THEN [written_by EXCEPT ![ch[2]] = NoChannel] ELSE written_by
    /\ subs' = IF ch[1] = "passenger" THEN [subs EXCEPT ![ch[2]] = NoSub] ELSE subs
    /\ report' = Report("disconnect", ch[2], 0, 0, FALSE, "")
    /\ delivered' = {}
    /\ UNCHANGED <<now, last_broadcast_times, limiter_passed, location>>
    /\ UNCHANGED <<ridestate, profiles, geo_in, geo_out, track>>

\* PassengerConsumer._handle_subscribe_nearby on channel ch
handle_subscribe_nearby(ch, lat, lon, radius) ==
    /\ ch \in conns
    /\ ch[1] = "passenger"
    /\ subscribe_passenger_to_area(ch[2], ch, lat, lon, radius)
    /\ UNCHANGED <<now, last_broadcast_times, limiter_passed, index,
                   location, conns, joined_groups, groups, written_by>>
    /\ UNCHANGED <<ridestate, profiles, geo_in, geo_out, track>>

\* PassengerConsumer._handle_unsubscribe_nearby on channel ch
handle_unsubscribe_nearby(ch) ==
    /\ ch \in conns
    /\ ch[1] = "passenger"
    /\ unsubscribe_passenger(ch[2])
    /\ UNCHANGED <<now, last_broadcast_times, limiter_passed, index,
                   location, conns, joined_groups, groups, written_by>>
    /\ UNCHANGED <<ridestate, profiles, geo_in, geo_out, track>>

\* DriverConsumer._handle_location_update on channel ch: broadcast as
\* "available", not forced; the profile's position is written when the driver
\* moved
handle_location_update(ch, lat, lon) ==
    LET d == ch[2]
    IN  /\ ch \in conns
        /\ ch[1] = "driver"
        /\ broadcast_driver_location(d, lat, lon, "available", FALSE)
        /\ location' = IF should_broadcast(d) /\ Moved(d, lat, lon)
                       THEN [location EXCEPT ![d] = [lat |-> lat, lon |-> lon, set |-> TRUE]]
                       ELSE location
        /\ written_by' = IF should_broadcast(d)
                         THEN [written_by EXCEPT ![d] = ch] ELSE written_by
        /\ UNCHANGED <<now, subs, conns, joined_groups, groups>>
        /\ UNCHANGED <<ridestate, profiles, geo_in, geo_out, track>>

\* broadcast_driver_status with a position: write the entry with the new
\* status, tell the passengers around, remove the entry when offline
broadcast_driver_status(d, status, lat, lon) ==
    /\ index' = [index EXCEPT ![d] =
                    IF status = "offline" THEN NoEntry ELSE Entry(lat, lon, status)]
    /\ delivered' = Fanout("driver_status_changed", d, lat, lon)
    /\ report' = Report("status", d, lat, lon, TRUE, "")

\* DriverConsumer._handle_status_update on channel ch: write the profile,
\* broadcast from the profile's position if it has one, remove the entry when
\* offline
handle_status_update(ch, status) ==
    LET d == ch[2]
    IN  /\ ch \in conns
        /\ ch[1] = "driver"
        /\ profiles' = [profiles EXCEPT ![d] = status]
        /\ IF location[d].set
           THEN broadcast_driver_status(d, status, location[d].lat, location[d].lon)
           ELSE /\ index' = IF status = "offline" THEN [index EXCEPT ![d] = NoEntry] ELSE index
                /\ delivered' = {}
                /\ report' = Report("status", d, 0, 0, FALSE, "no_location")
        /\ written_by' = IF status = "offline" THEN [written_by EXCEPT ![d] = NoChannel]
                         ELSE IF location[d].set THEN [written_by EXCEPT ![d] = ch]
                         ELSE written_by
        /\ UNCHANGED <<now, last_broadcast_times, limiter_passed, subs, location,
                       conns, joined_groups, groups>>
        /\ UNCHANGED <<ridestate, geo_in, geo_out, track>>

\* DriverStatusView.put -> drivers/services.py update_driver_status: write the
\* profile, broadcast only if the profile has a position
DriverStatusView_put(d, status) ==
    /\ profiles' = [profiles EXCEPT ![d] = status]
    /\ IF location[d].set
       THEN broadcast_driver_status(d, status, location[d].lat, location[d].lon)
       ELSE /\ delivered' = {}
            /\ report' = Report("status", d, 0, 0, FALSE, "no_location")
            /\ UNCHANGED index
    /\ written_by' = IF location[d].set
                     THEN [written_by EXCEPT ![d] = NoChannel] ELSE written_by
    /\ UNCHANGED <<now, last_broadcast_times, limiter_passed, subs, location,
                   conns, joined_groups, groups>>
    /\ UNCHANGED <<ridestate, geo_in, geo_out, track>>

\* DriverLocationUpdateView.post -> drivers/services.py update_driver_location:
\* write the profile's position, broadcast with the profile's status, forced
DriverLocationUpdateView_post(d, lat, lon) ==
    /\ location' = [location EXCEPT ![d] = [lat |-> lat, lon |-> lon, set |-> TRUE]]
    /\ broadcast_driver_location(d, lat, lon, profiles[d], TRUE)
    /\ written_by' = [written_by EXCEPT ![d] = NoChannel]
    /\ UNCHANGED <<now, subs, conns, joined_groups, groups>>
    /\ UNCHANGED <<ridestate, profiles, geo_in, geo_out, track>>

\* the driver whose sessions are explored
SessionDrivers == {1}

SessionNext ==
    \/ \E kind \in Kinds, u \in SessionDrivers \cup Passengers, n \in Slots :
            \* a second channel on the driver and the passenger endpoint only
            (kind = "ride" => n = 1) /\ connect(kind, u, n)
    \/ \E ch \in Channels : disconnect(ch)
    \/ \E ch \in Channels, c \in FanCentres : handle_subscribe_nearby(ch, c.lat, c.lon, 15)
    \/ \E ch \in Channels : handle_unsubscribe_nearby(ch)
    \/ \E ch \in Channels, pt \in RatePoints : handle_location_update(ch, pt.lat, pt.lon)
    \/ \E ch \in Channels, st \in {"available", "busy", "offline"} :
            handle_status_update(ch, st)
    \/ \E d \in SessionDrivers, st \in {"available", "offline"} : DriverStatusView_put(d, st)
    \/ \E d \in SessionDrivers, pt \in RatePoints : DriverLocationUpdateView_post(d, pt.lat, pt.lon)

SessionSpec == Init /\ [][SessionNext]_vars

\* ------------------------------------------------------------------ ride tracking
\* RideConsumer._validate_ride_participant
validate_ride_participant(u, r) ==
    RideExists(r) /\ (rides[r].passenger = u \/ rides[r].driver = u)

\* RideConsumer._handle_start_tracking on channel ch: join ride_<id> when the
\* user is a participant of the ride
handle_start_tracking(ch, r) ==
    /\ ch \in conns
    /\ ch[1] = "ride"
    /\ IF validate_ride_participant(ch[2], r)
       THEN /\ joined_groups' = [joined_groups EXCEPT ![ch] = @ \cup {<<"ride", r>>}]
            /\ groups' = groups \cup {<<<<"ride", r>>, ch>>}
            /\ report' = Report("start_tracking", ch[2], 0, 0, FALSE, "")
       ELSE /\ report' = Report("start_tracking", ch[2], 0, 0, FALSE, "not_authorized")
            /\ UNCHANGED <<joined_groups, groups>>
    /\ delivered' = {}
    /\ UNCHANGED <<now, last_broadcast_times, limiter_passed, index, subs, location, conns,
                   written_by>>
    /\ UNCHANGED <<ridestate, profiles, geo_in, geo_out, track>>

\* RideConsumer._handle_stop_tracking on channel ch
handle_stop_tracking(ch, r) ==
    /\ ch \in conns
    /\ ch[1] = "ride"
    /\ joined_groups' = [joined_groups EXCEPT ![ch] = @ \ {<<"ride", r>>}]
    /\ groups' = groups \ {<<<<"ride", r>>, ch>>}
    /\ report' = Report("stop_tracking", ch[2], 0, 0, FALSE, "")
    /\ delivered' = {}
    /\ UNCHANGED <<now, last_broadcast_times, limiter_passed, index, subs, location, conns,
                   written_by>>
    /\ UNCHANGED <<ridestate, profiles, geo_in, geo_out, track>>

\* RideConsumer._handle_tracking_update on channel ch: refuse a user that is
\* no driver; write the profile's position and send driver_track_location to
\* every channel of ride_<id>
handle_tracking_update(ch, r, lat, lon) ==
    /\ ch \in conns
    /\ ch[1] = "ride"
    /\ IF Role(ch[2]) # "driver"
       THEN /\ report' = Report("tracking_update", ch[2], lat, lon, FALSE, "not_driver")
            /\ delivered' = {}
            /\ UNCHANGED location
       ELSE /\ location' = [location EXCEPT ![ch[2]] = [lat |-> lat, lon |-> lon, set |-> TRUE]]
            /\ report' = Report("tracking_update", ch[2], lat, lon, TRUE, "")
            /\ delivered' = {[channel |-> m[2], type |-> "driver_track_location",
                              driver |-> ch[2], lat |-> lat, lon |-> lon] :
                                m \in {x \in groups : x[1] = <<"ride", r>>}}
    /\ UNCHANGED <<now, last_broadcast_times, limiter_passed, index, subs, conns,
                   joined_groups, groups, written_by>>
    /\ UNCHANGED <<ridestate, profiles, geo_in, geo_out, track>>

\* the ride that is tracked, with the handlers that give it a passenger and a
\* driver, and the users on the ride endpoint: two drivers and the passenger
TrackRides == {1}
TrackPoint == [lat |-> 45, lon |-> 101]

TrackNext ==
    \/ \E p \in Passengers, rad \in Radii : CreateBegin(p, rad) /\ Observed
    \/ \E c \in inflight : CreateCommit(c) /\ Observed
    \/ \E d \in RtDrivers, r \in TrackRides : AcceptBegin(d, r) /\ Observed
    \/ \E c \in inflight : AcceptCommit(c) /\ Observed
    \/ \E u \in RtDrivers \cup Passengers : connect("ride", u, 1)
    \/ \E ch \in Channels, r \in TrackRides : handle_start_tracking(ch, r)
    \/ \E ch \in Channels, r \in TrackRides : handle_stop_tracking(ch, r)
    \/ \E ch \in Channels, r \in TrackRides :
            handle_tracking_update(ch, r, TrackPoint.lat, TrackPoint.lon)

TrackSpec == Init /\ [][TrackNext]_vars

\* ------------------------------------------------------------------ presence and rides
\* The ride handlers that change a driver's availability (accept, complete)
\* together with the traffic that writes and reads the presence index: the
\* driver's socket, the driver's HTTP location update, a passenger's
\* subscription with its snapshot.  The clock stands still: the first update
\* of a socket passes the limiter, the HTTP update is not limited.
PresenceNext ==
    \/ \E p \in Passengers, rad \in Radii : CreateBegin(p, rad) /\ Observed
    \/ \E c \in inflight : CreateCommit(c) /\ Observed
    \/ \E d \in SessionDrivers, r \in RideIds : AcceptBegin(d, r) /\ Observed
    \/ \E c \in inflight : AcceptCommit(c) /\ Observed
    \/ \E d \in SessionDrivers, r \in RideIds : CompleteBegin(d, r) /\ Observed
    \/ \E c \in inflight : CompleteCommit(c) /\ Observed
    \/ \E ch \in {<<"driver", d>> : d \in SessionDrivers} \cup
                 {<<"passenger", p>> : p \in Passengers} : connect(ch[1], ch[2], 1)
    \/ \E ch \in Channels, pt \in RatePoints : handle_location_update(ch, pt.lat, pt.lon)
    \/ \E d \in SessionDrivers, pt \in RatePoints : DriverLocationUpdateView_post(d, pt.lat, pt.lon)
    \/ \E ch \in Channels, c \in FanCentres : handle_subscribe_nearby(ch, c.lat, c.lon, 15)

PresenceSpec == Init /\ [][PresenceNext]_vars

\* ------------------------------------------------------------------ small movements
\* A driver creeping along a street, positions in metres: the non-forced
\* updates that pass the rate limiter.  update_driver_location compares the new
\* position with the one stored, stores the new one, and the broadcast is
\* suppressed when the driver has not moved.
StreetPoints == {0, 6, 12, 18, 24}

\* broadcast_driver_location(force=False) past the limiter, on the street
update_driver_location(d, pos) ==
    LET moved == significant(track[d].set,
                             (pos - track[d].stored) * (pos - track[d].stored))
    IN  /\ track' = [track EXCEPT ![d] =
                        [stored |-> pos,
                         sent |-> IF moved THEN pos ELSE track[d].sent,
                         set |-> TRUE]]
        /\ UNCHANGED <<ridestate, profiles, geo_in, geo_out, realtime>>

CreepNext == \E d \in RtDrivers, pos \in StreetPoints : update_driver_location(d, pos)

CreepSpec == Init /\ [][CreepNext]_vars

\* ------------------------------------------------------------------ geohash cover
\* get_covering_geohashes applied to a viewport
GeoInit ==
    /\ rides = <<>>
    /\ offers = [o \in RideIds \X Drivers |-> NoOffer]
    /\ profiles = [d \in Drivers |-> "available"]
    /\ completed = [u \in Users |-> 0]
    /\ timers = {}
    /\ inflight = {}
    /\ last = Result("none", NULL, NULL, "OK")
    /\ out = {}
    /\ calls = 0
    /\ pushed = {}
    /\ geo_in \in [lat : CentreLats, lon : CentreLons, radius : ViewRadii]
    /\ geo_out = {}
    /\ track = [d \in Drivers |-> NoTrack]
    /\ RealtimeInit

Cover ==
    /\ geo_out = {}
    /\ geo_out' = get_covering_geohashes(geo_in.lat, geo_in.lon, geo_in.radius)
    /\ UNCHANGED <<ridestate, profiles, geo_in, track, realtime>>

GeoNext == Cover

GeoSpec == GeoInit /\ [][GeoNext]_vars

\* ------------------------------------------------------------------ offer queue
\* build_offers_for_ride applied to one pending ride, for every combination of
\* profile status, stored location and radius below.
\* the pickup of the ride, and the positions a profile may store: 200 m, 500 m
\* (on the parallel and across it) and 600 m from the pickup
BuildPickup == [lat |-> 45, lon |-> 100]
BuildPoints == {[lat |-> 45, lon |-> 102], [lat |-> 45, lon |-> 105],
                [lat |-> 48, lon |-> 104], [lat |-> 45, lon |-> 106]}
\* broadcast_radius in metres
BuildRadii == {200, 500}
\* the longest distance between two of these positions is below this, in metres
MaxMetres == 2000

\* calculate_distance(lat1, lon1, lat2, lon2) in whole metres; a grid step is 100 m
Metres(lat1, lon1, lat2, lon2) ==
    LET sq == 10000 * ((lat1 - lat2) * (lat1 - lat2) + (lon1 - lon2) * (lon1 - lon2))
    IN  CHOOSE n \in 0..MaxMetres : n * n <= sq /\ sq < (n + 1) * (n + 1)

\* the distance of each profile's stored location from the pickup
PickupDistance ==
    [d \in Drivers |->
        IF location[d].set
        THEN Metres(BuildPickup.lat, BuildPickup.lon, location[d].lat, location[d].lon)
        ELSE NoDistance]

\* an earlier queue of the ride: an expired offer that was sent to driver 1
EarlierOffers ==
    [o \in RideIds \X Drivers |->
        IF o = <<1, 1>>
        THEN [status |-> "expired", order |-> 0, sent_at |-> "stale", responded_at |-> TRUE]
        ELSE NoOffer]

BuildInit ==
    /\ \E p \in Passengers, rad \in BuildRadii : rides = <<NewRide(p, rad)>>
    /\ offers \in {[o \in RideIds \X Drivers |-> NoOffer], EarlierOffers}
    /\ profiles \in [Drivers -> {"available", "busy", "offline"}]
    /\ location \in [Drivers -> {NoLocation} \cup
                        {[lat |-> pt.lat, lon |-> pt.lon, set |-> TRUE] : pt \in BuildPoints}]
    /\ completed = [u \in Users |-> 0]
    /\ timers = {}
    /\ inflight = {}
    /\ last = Result("none", NULL, NULL, "OK")
    /\ out = {}
    /\ calls = 0
    /\ pushed = {}
    /\ geo_in = NoInput
    /\ geo_out = {}
    /\ track = [d \in Drivers |-> NoTrack]
    /\ now = Epoch
    /\ last_broadcast_times = [d \in Drivers |-> 0]
    /\ limiter_passed = [d \in Drivers |-> {}]
    /\ index = [d \in Drivers |-> NoEntry]
    /\ subs = [p \in Passengers |-> NoSub]
    /\ delivered = {}
    /\ report = Report("none", NULL, 0, 0, FALSE, "")
    /\ conns = {}
    /\ joined_groups = [ch \in Channels |-> {}]
    /\ groups = {}
    /\ written_by = [d \in Drivers |-> NoChannel]

\* build_offers_for_ride(ride 1)
BuildOffers ==
    /\ last.op = "none"
    /\ offers' = Queue(offers, 1,
                       Eligible(profiles, PickupDistance, rides[1].broadcast_radius),
                       PickupDistance)
    /\ last' = Result("build", NULL, 1, "OK")
    /\ UNCHANGED <<rides, profiles, completed, timers, inflight, out, calls, pushed>>
    /\ UNCHANGED rtvars

BuildNext == BuildOffers

BuildSpec == BuildInit /\ [][BuildNext]_vars

\* ================================================================== properties
Terminal == {"completed", "cancelled_user", "cancelled_driver", "no_drivers"}

\* the offers of ride r that are in flight: pending, sent, not answered
InFlight(r) ==
    {d \in Drivers : /\ offers[<<r, d>>].status = "pending"
                     /\ offers[<<r, d>>].sent_at # "null"
                     /\ ~offers[<<r, d>>].responded_at}

AcceptedOffers(r) == {d \in Drivers : offers[<<r, d>>].status = "accepted"}

HeldRides(d) ==
    {r \in 1..Len(rides) : rides[r].driver = d /\ rides[r].status = "accepted"}

ActiveRides(p) ==
    {r \in 1..Len(rides) : rides[r].passenger = p /\ rides[r].status \in {"pending", "accepted"}}

\* C1: every pending ride has at most one offer in flight.
C1_InFlightSingleton ==
    \A r \in 1..Len(rides) :
        rides[r].status = "pending" => Cardinality(InFlight(r)) <= 1

\* C2: an accept by a driver holding a pending offer succeeds only when no other
\* driver's accept has succeeded on that ride, and it leaves the ride accepted
\* with the winner as its driver and the winner busy.
C2_ConcurrentAcceptOneWinner ==
    [][\A c \in inflight :
          (c.op = "accept" /\ c.tgt # NULL /\ AcceptCommit(c)) =>
              /\ \A e \in Drivers \ {c.who} : offers[<<c.ride, e>>].status # "accepted"
              /\ rides[c.ride].status = "pending"
              /\ rides'[c.ride].driver = c.who
              /\ profiles'[c.who] = "busy"]_vars

\* C3: every ride has at most one accepted offer, and when it has one the ride
\* is accepted and its driver is that offer's driver.
C3_OfferUniqueness ==
    \A r \in 1..Len(rides) :
        /\ Cardinality(AcceptedOffers(r)) <= 1
        /\ \A d \in AcceptedOffers(r) :
              rides[r].status = "accepted" /\ rides[r].driver = d

\* C4: a driver's profile is busy exactly when the driver holds exactly one
\* accepted ride.
C4_BusyIffHolding ==
    \A d \in Drivers :
        profiles[d] = "busy" <=> Cardinality(HeldRides(d)) = 1

\* C5: every passenger has at most one ride that is pending or accepted.
C5_OneActiveRide ==
    \A p \in Passengers : Cardinality(ActiveRides(p)) <= 1

\* C6: once a ride's status is terminal, no step changes it.
C6_TerminalAbsorbing ==
    [][\A r \in 1..Len(rides) :
          rides[r].status \in Terminal => rides'[r].status = rides[r].status]_vars

\* C7: the ride is never assigned to a driver whose offer on it is expired
\* (an accept and an expiry of the same offer do not both take effect).
C7_AcceptedOfferNeverExpired ==
    \A r \in 1..Len(rides), d \in Drivers :
        rides[r].driver = d => offers[<<r, d>>].status # "expired"

\* C8: passenger cancellation and acceptance of one ride do not both take
\* effect: an accepted ride was not cancelled, and the driver of a
\* cancelled_user ride is not left busy without a ride.
C8_CancelAcceptExclusive ==
    \A r \in 1..Len(rides) :
        /\ rides[r].status = "accepted" => ~rides[r].cancelled_at
        /\ (rides[r].status = "cancelled_user" /\ rides[r].driver # NULL) =>
              (profiles[rides[r].driver] = "busy" => HeldRides(rides[r].driver) # {})

\* C9: the expiry task on an offer that is already resolved changes no ride, no
\* offer and dispatches nothing; and an expiry that ran leaves its offer
\* resolved, so a second run for the same offer is such a no-op.
C9_ExpiryIdempotent ==
    [][/\ \A o \in RideIds \X Drivers :
            (Resolved(o) /\ expire_ride_offer_task(o)) =>
                /\ UNCHANGED <<rides, offers, profiles, completed, inflight>>
                /\ out' = {}
       /\ \A c \in inflight :
            ExpireWrite(c) =>
                /\ offers'[<<c.ride, c.tgt>>].status # "pending"
                /\ offers'[<<c.ride, c.tgt>>].responded_at]_vars

\* C9 witness: the expiry task ran on an offer that had already been answered.
C9_Witness ==
    /\ last.op = "expire"
    /\ last.code = "NOOP"
    /\ \E d \in Drivers :
          offers[<<last.ride, d>>].status \in {"accepted", "rejected", "expired"}

\* C10: a successful accept leaves the ride accepted with that driver, the
\* driver busy, the driver's offer accepted and answered, and no offer of the
\* ride pending.
C10_AcceptRetiresOffers ==
    [][\A c \in inflight :
          AcceptCommit(c) =>
              /\ rides'[c.ride].status = "accepted"
              /\ rides'[c.ride].driver = c.who
              /\ profiles'[c.who] = "busy"
              /\ OffersOf(offers', c.ride) # {} =>
                    /\ offers'[<<c.ride, c.who>>].status = "accepted"
                    /\ offers'[<<c.ride, c.who>>].responded_at
              /\ PendingOf(offers', c.ride) = {}]_vars

\* C11: on a pending ride that has offers, an accept by an available driver who
\* holds no pending offer on it is refused and writes nothing; a driver with
\* no offer row at all is refused with OFFER_NOT_FOUND.
C11_AcceptNeedsOffer ==
    [][\A d \in Drivers, r \in RideIds :
          (/\ AcceptBegin(d, r)
           /\ profiles[d] = "available"
           /\ rides[r].status = "pending"
           /\ OffersOf(offers, r) # {}
           /\ offers[<<r, d>>].status # "pending") =>
              /\ inflight' = inflight
              /\ last'.op = "accept" /\ last'.who = d /\ last'.ride = r
              /\ last'.code \in {"OFFER_NOT_FOUND", "OFFER_EXPIRED"}
              /\ offers[<<r, d>>].status = "none" => last'.code = "OFFER_NOT_FOUND"]_vars

\* C12: a create_request that finds no available driver within the radius
\* creates no offer, pushes no_drivers_available to the passenger and leaves
\* the new ride in status no_drivers.
C12_NoDriversAtCreate ==
    [][\A c \in inflight :
          (CreateCommit(c) /\ Candidates(c.arg) = {}) =>
              /\ OffersOf(offers', Len(rides')) = {}
              /\ Push("user", c.who, "no_drivers_available", Len(rides')) \in out'
              /\ rides'[Len(rides')].status = "no_drivers"]_vars

\* C14: a reject whose write finds the ride pending marks the caller's offer
\* rejected and answered and selects the next unsent offer when there is one;
\* the ride is then no_drivers exactly when no offer of it is pending, and
\* pending otherwise; the dispatch that follows sends the selected offer and
\* leaves the ride as it is.
C14_RejectAdvances ==
    [][/\ \A c \in inflight :
            (RejectWrite(c) /\ rides[c.ride].status = "pending") =>
                /\ offers'[<<c.ride, c.tgt>>].status = "rejected"
                /\ offers'[<<c.ride, c.tgt>>].responded_at
                /\ rides'[c.ride].status =
                      IF PendingOf(offers', c.ride) = {} THEN "no_drivers" ELSE "pending"
                /\ Unsent(offers', c.ride) # {} =>
                      \E n \in inflight' :
                          /\ n.op = "reject" /\ n.who = c.who /\ n.ride = c.ride
                          /\ n.pc = "picked" /\ n.pick \in Unsent(offers', c.ride)
       /\ \A c \in inflight :
            (c.op = "reject" /\ DispatchSend(c)) =>
                /\ offers'[<<c.ride, c.pick>>].sent_at # "null"
                /\ Push("driver", c.pick, "ride_offer", c.ride) \in out'
                /\ rides' = rides]_vars

\* C14 witness: a reject returned, its offer is rejected, the next offer of
\* the ride was sent and the ride is still pending.
C14_Witness ==
    /\ last.op = "reject" /\ last.code = "OK"
    /\ rides[last.ride].status = "pending"
    /\ offers[<<last.ride, last.who>>].status = "rejected"
    /\ \E d \in Drivers :
          /\ offers[<<last.ride, d>>].status = "pending"
          /\ offers[<<last.ride, d>>].sent_at = "fresh"
          /\ offers[<<last.ride, d>>].order > offers[<<last.ride, last.who>>].order

\* C15: a sweeper run takes every pending offer older than the timeout, marks
\* each expired and answered, and for each selects and then sends the
\* lowest-order pending unsent offer of the same ride; while such an offer
\* exists the sweeper does not change the ride's status.
C15_SweeperExpiresAndDispatches ==
    [][/\ process_offer_timeouts =>
            \A o \in StaleOffers :
                \E n \in inflight' :
                    n.op = "expire" /\ n.arg = BY_SWEEPER /\ n.ride = o[1] /\ n.tgt = o[2]
       /\ \A c \in inflight :
            (c.op = "expire" /\ c.arg = BY_SWEEPER /\ ExpireWrite(c)) =>
                /\ offers'[<<c.ride, c.tgt>>].status = "expired"
                /\ offers'[<<c.ride, c.tgt>>].responded_at
                /\ Unsent(offers', c.ride) # {} =>
                      /\ rides'[c.ride].status = rides[c.ride].status
                      /\ \E n \in inflight' :
                            /\ n.op = "expire" /\ n.arg = BY_SWEEPER /\ n.ride = c.ride
                            /\ n.pc = "picked" /\ n.pick \in Unsent(offers', c.ride)
                            /\ \A e \in Unsent(offers', c.ride) :
                                  offers'[<<c.ride, n.pick>>].order <= offers'[<<c.ride, e>>].order
       /\ \A c \in inflight :
            (c.op = "expire" /\ c.arg = BY_SWEEPER /\ DispatchSend(c)) =>
                /\ offers'[<<c.ride, c.pick>>].sent_at # "null"
                /\ Push("driver", c.pick, "ride_offer", c.ride) \in out'
                /\ rides' = rides]_vars

\* C15 witness: the sweeper has expired a stale offer and selected the next
\* unsent offer of the ride, which is still pending.
C15_Witness ==
    \E c \in inflight :
        /\ c.op = "expire" /\ c.arg = BY_SWEEPER /\ c.pc = "picked"
        /\ offers[<<c.ride, c.tgt>>].status = "expired"
        /\ offers[<<c.ride, c.tgt>>].responded_at
        /\ offers[<<c.ride, c.pick>>].status = "pending"
        /\ rides[c.ride].status = "pending"

\* C16: dispatch_next_offer sends only an offer that was not sent before.
C16_DispatchOnce ==
    [][\A c \in inflight :
          DispatchSend(c) => offers[<<c.ride, c.pick>>].sent_at = "null"]_vars

\* C17: complete(d, r) on a ride that is not assigned to d or not accepted
\* returns RIDE_NOT_FOUND and writes nothing; a complete that passed this test
\* sets the ride completed with completed_at, adds exactly 1 to the
\* completed_rides of the passenger and of the driver and of nobody else, and
\* makes the driver's profile available.
C17_CompleteContract ==
    [][/\ \A d \in Drivers, r \in RideIds :
            (CompleteBegin(d, r) /\ (rides[r].driver # d \/ rides[r].status # "accepted")) =>
                /\ last' = Result("complete", d, r, "RIDE_NOT_FOUND")
                /\ inflight' = inflight
                /\ UNCHANGED db
       /\ \A c \in inflight :
            CompleteCommit(c) =>
                /\ rides'[c.ride].status = "completed"
                /\ rides'[c.ride].completed_at
                /\ completed'[c.who] = completed[c.who] + 1
                /\ completed'[rides[c.ride].passenger] = completed[rides[c.ride].passenger] + 1
                /\ \A u \in Users \ {c.who, rides[c.ride].passenger} : completed'[u] = completed[u]
                /\ profiles'[c.who] = "available"
                /\ last' = Result("complete", c.who, c.ride, "OK")]_vars

\* C17 witness: a complete succeeded on a ride accepted by its caller.
C17_Witness ==
    /\ last.op = "complete" /\ last.code = "OK"
    /\ rides[last.ride].status = "completed"
    /\ rides[last.ride].driver = last.who
    /\ completed[last.who] = 1
    /\ completed[rides[last.ride].passenger] = 1
    /\ profiles[last.who] = "available"

\* C18: a passenger cancellation of a ride that had a driver sets the ride
\* cancelled_user with cancelled_at and the reason, makes that driver's
\* profile available and pushes ride_cancelled to that driver and to the ride
\* group.
C18_CancelAssignedRide ==
    [][\A c \in inflight :
          (CancelByPassengerCommit(c) /\ c.tgt # NULL) =>
              /\ rides'[c.ride].status = "cancelled_user"
              /\ rides'[c.ride].cancelled_at
              /\ rides'[c.ride].cancellation_reason = PassengerReason
              /\ profiles'[c.tgt] = "available"
              /\ Push("driver", c.tgt, "ride_cancelled", c.ride) \in out'
              /\ Push("ride", c.ride, "ride_cancelled", c.ride) \in out']_vars

\* C19: a passenger cancellation of a ride in status no_drivers is refused
\* with an error and starts no write.
C19_NoDriversNotCancellable ==
    [][\A p \in Passengers, r \in RideIds, via \in CancelPaths :
          (CancelByPassengerBegin(p, r, via) /\ rides[r].status = "no_drivers") =>
              /\ inflight' = inflight
              /\ last'.op = "cancel_user" /\ last'.code # "OK"]_vars

\* C20: while a driver is busy with an accepted ride, a status update to
\* available or offline leaves the profile busy.
C20_BusyDriverKeepsStatus ==
    [][\A d \in Drivers, s \in {"available", "offline"} :
          (update_driver_status(d, s) /\ profiles[d] = "busy" /\ HeldRides(d) # {}) =>
              profiles'[d] = "busy"]_vars

\* C13: under fair execution of the expiry callbacks, every ride that is
\* pending eventually is not pending any more.
C13_PendingTerminates ==
    \A r \in RideIds :
        (RideExists(r) /\ rides[r].status = "pending")
            ~> (RideExists(r) /\ rides[r].status # "pending")

\* C21: a push delivery failure never rolls back or blocks the state change:
\* when the push of an accept, reject, complete, cancel or expiry fails, the
\* ride, offer and driver-profile writes of that operation are in the database
\* all the same (for an expiry: the offer is expired and, when it was the last
\* pending offer with nothing left to dispatch, the ride is no_drivers).
C21_PushFailureKeepsWrites ==
    [][\A c \in inflight :
        /\ PushFailsRollback(c) =>
             /\ c.op = "accept" =>
                    /\ rides'[c.ride].status = "accepted"
                    /\ rides'[c.ride].driver = c.who
                    /\ profiles'[c.who] = "busy"
             /\ c.op = "reject" => offers'[<<c.ride, c.tgt>>].status = "rejected"
             /\ c.op = "complete" =>
                    /\ rides'[c.ride].status = "completed"
                    /\ profiles'[c.who] = "available"
             /\ c.op = "cancel_user" => rides'[c.ride].status = "cancelled_user"
             /\ c.op = "cancel_driver" => rides'[c.ride].status = "cancelled_driver"
        /\ ExpirePushFails(c) =>
             /\ offers'[<<c.ride, c.tgt>>].status = "expired"
             /\ (NextOffer(offers', c.ride) = NULL /\ NothingLeft(offers', c.ride))
                    => rides'[c.ride].status = "no_drivers"
      ]_vars

\* C22: the events pushed to a ride's passenger follow the state machine:
\* ride_completed is never pushed before ride_accepted was, and ride_accepted
\* is never pushed after ride_cancelled was.
C22_PassengerEventOrder ==
    [][\A m \in out' :
        /\ (m.grp \in {"user", "ride"} /\ m.type = "ride_completed")
                => <<m.ride, "ride_accepted">> \in pushed
        /\ (m.grp \in {"user", "ride"} /\ m.type = "ride_accepted")
                => <<m.ride, "ride_cancelled">> \notin pushed
      ]_vars

\* C23: an offer's status is monotone: a pending offer only stays pending or
\* becomes accepted, rejected or expired, and a resolved offer (accepted,
\* rejected, expired) never changes its status again.
C23_OfferStatusMonotone ==
    [][\A o \in RideIds \X Drivers :
        /\ offers[o].status = "pending"
                => offers'[o].status \in {"pending", "accepted", "rejected", "expired"}
        /\ offers[o].status \in {"accepted", "rejected", "expired"}
                => offers'[o].status = offers[o].status
      ]_vars

\* C24: an accept that fails (driver not available, ride not pending, the
\* driver's offer expired or otherwise not pending) returns its error and has
\* no side effect: the ride, every offer, the driver's profile and the
\* counters are unchanged, no writer is left in flight, no timer is touched
\* and nothing is pushed.
C24_FailedAcceptNoEffect ==
    [][\A d \in Drivers, r \in RideIds :
        (/\ AcceptBegin(d, r)
         /\ \/ profiles[d] # "available"
            \/ rides[r].status # "pending"
            \/ offers[<<r, d>>].status \in {"expired", "accepted", "rejected"})
        => /\ last'.op = "accept" /\ last'.who = d /\ last'.ride = r
           /\ last'.code = (IF profiles[d] # "available" THEN "DRIVER_NOT_AVAILABLE"
                            ELSE IF rides[r].status # "pending" THEN "RIDE_NOT_AVAILABLE"
                            ELSE IF offers[<<r, d>>].status = "expired" THEN "OFFER_EXPIRED"
                            ELSE "OFFER_NOT_FOUND")
           /\ UNCHANGED <<rides, offers, profiles, completed, timers, inflight, pushed>>
           /\ out' = {}
      ]_vars

\* a driver whose offer had expired on a still pending ride was refused
C24_Witness ==
    /\ last.op = "accept"
    /\ last.code = "OFFER_EXPIRED"
    /\ rides[last.ride].status = "pending"
    /\ offers[<<last.ride, last.who>>].status = "expired"
    /\ profiles[last.who] = "available"

\* C30: an expiry (expire the offer, then advance) changes a ride's status
\* only when the ride is still pending: it writes no_drivers only if no next
\* offer was dispatched, no pending offer remains and the ride is pending at
\* that moment, and it leaves an accepted, cancelled or completed ride as it is.
C30_ExpiryTouchesPendingOnly ==
    [][\A c \in inflight :
        (ExpireWrite(c) \/ (c.op = "expire" /\ DispatchSend(c)))
        => \A r \in 1..Len(rides) :
              rides'[r] # rides[r]
              => /\ r = c.ride
                 /\ rides[r].status = "pending"
                 /\ rides'[r] = [rides[r] EXCEPT !.status = "no_drivers"]
                 /\ c.pc = "checked"
                 /\ NextOffer(offers', r) = NULL
                 /\ PendingOf(offers', r) = {}
      ]_vars

\* C27: geohash cover soundness: every point within radius of the centre has
\* its tile in cover(lat, lon, radius).
C27_CoverSound ==
    geo_out # {} =>
        \A lat \in (geo_in.lat - geo_in.radius)..(geo_in.lat + geo_in.radius),
           lon \in (geo_in.lon - geo_in.radius)..(geo_in.lon + geo_in.radius) :
            Within(geo_in.lat, geo_in.lon, lat, lon, geo_in.radius)
                => encode_geohash(lat, lon) \in geo_out

\* C25: rate limit: for every driver and every window of one second
\* [w, w + 1 s), at most 2 non-force location broadcasts pass the driver's
\* rate limiter (minimum interval 500 ms).
C25_RateLimit ==
    \A d \in Drivers, w \in (Epoch - Window)..MaxTime :
        Cardinality({t \in limiter_passed[d] : w <= t /\ t < w + Window}) <= 2

\* a driver passed the limiter three times and was refused at least once since
C25_Witness ==
    \E d \in Drivers :
        /\ Cardinality(limiter_passed[d]) >= 3
        /\ report.driver = d
        /\ report.reason = "rate_limited"

\* C26: for every location broadcast that is not suppressed, a subscribed
\* passenger is sent the update if and only if the distance between the
\* centre of the subscription and the driver's new position is at most the
\* subscription's radius, also when the position is in another tile than
\* the centre.
C26_DeliveredIffWithin ==
    [][(report'.op = "location" /\ report'.broadcasted)
        => \A p \in Passengers :
              subs[p] # NoSub
              => ( (\E m \in delivered' :
                        /\ m.channel = subs[p].channel
                        /\ m.type = "driver_location_updated"
                        /\ m.driver = report'.driver
                        /\ m.lat = report'.lat /\ m.lon = report'.lon)
                   <=> Within(subs[p].lat, subs[p].lon, report'.lat, report'.lon,
                              subs[p].radius) )
      ]_vars

\* C28: on disconnect of a channel, of whatever consumer, the channel is
\* removed from every group it joined, a driver's entry is removed from the
\* index (remove_driver) and a passenger's subscription is deleted
\* (unsubscribe_passenger).
C28_DisconnectCleansUp ==
    [][\A ch \in Channels :
        disconnect(ch)
        => /\ \A m \in groups' : m[2] # ch
           /\ Role(ch[2]) = "driver" => index'[ch[2]] = NoEntry
           /\ Role(ch[2]) = "user" => subs'[ch[2]] = NoSub
      ]_vars

\* C29: a driver whose DriverProfile.status is offline has no entry in the
\* presence index.
C29_OfflineNotIndexed ==
    \A d \in Drivers : profiles[d] = "offline" => index[d] = NoEntry

\* C31: dispatch_next always dispatches the pending unsent offer with the
\* minimum order; consequently, after every step and for every ride, each
\* offer with sent_at set has a smaller order than each offer that is still
\* pending with sent_at NULL.
C31_DispatchMinOrder ==
    [][/\ \A c \in inflight :
            DispatchSend(c) =>
                /\ c.pick \in Unsent(offers, c.ride)
                /\ \A e \in Unsent(offers, c.ride) :
                      offers[<<c.ride, c.pick>>].order <= offers[<<c.ride, e>>].order
       /\ \A r \in RideIds, d \in Drivers, e \in Drivers :
            (d \in SentOf(offers', r) /\ e \in Unsent(offers', r))
                => offers'[<<r, d>>].order < offers'[<<r, e>>].order
      ]_vars

\* C32: build_offers creates exactly one offer (status pending, sent_at NULL)
\* for each driver whose profile is available, has a stored location and is at
\* distance <= broadcast_radius from the pickup (bound inclusive), and none
\* for any other driver; the offers carry order 0..N-1 without gaps, in
\* non-decreasing distance, and replace any earlier offers of the ride.
C32_BuildOffers ==
    [][BuildOffers =>
        LET rad == rides[1].broadcast_radius \div 100
            sq(d) == (location[d].lat - BuildPickup.lat) * (location[d].lat - BuildPickup.lat)
                     + (location[d].lon - BuildPickup.lon) * (location[d].lon - BuildPickup.lon)
            near == {d \in Drivers : /\ profiles[d] = "available"
                                     /\ location[d].set
                                     /\ sq(d) <= rad * rad}
        IN  /\ \A d \in Drivers :
                  offers'[<<1, d>>] # NoOffer <=> d \in near
            /\ \A d \in near :
                  /\ offers'[<<1, d>>].status = "pending"
                  /\ offers'[<<1, d>>].sent_at = "null"
                  /\ ~offers'[<<1, d>>].responded_at
            /\ {offers'[<<1, d>>].order : d \in near} = 0..(Cardinality(near) - 1)
            /\ \A d \in near, e \in near :
                  offers'[<<1, d>>].order < offers'[<<1, e>>].order => sq(d) <= sq(e)
            /\ \A o \in RideIds \X Drivers : o[1] # 1 => offers'[o] = offers[o]
      ]_vars

\* a queue was built that replaced an earlier offer, holds a driver exactly at
\* the radius and leaves out an available driver without a stored location
C32_Witness ==
    /\ last.op = "build"
    /\ offers[<<1, 1>>].status = "pending"
    /\ \E d \in Drivers :
          /\ offers[<<1, d>>].status = "pending"
          /\ PickupDistance[d] = rides[1].broadcast_radius
    /\ \E d \in Drivers :
          /\ profiles[d] = "available"
          /\ ~location[d].set
          /\ offers[<<1, d>>] = NoOffer
    /\ Cardinality(OffersOf(offers, 1)) = 2

\* C33: no offer is dispatched for a ride that is not pending: no step sets
\* sent_at of an offer or pushes ride_offer for a ride whose status is
\* accepted, cancelled_user, cancelled_driver, completed or no_drivers.
C33_DispatchOnlyPending ==
    [][/\ \A m \in out' :
            m.type = "ride_offer" => rides'[m.ride].status = "pending"
       /\ \A o \in RideIds \X Drivers :
            (offers[o].sent_at = "null" /\ offers'[o].sent_at # "null")
                => rides'[o[1]].status = "pending"
      ]_vars

\* C34: no driver is the driver of two rides in status accepted at the same
\* time, also when that driver's accepts for two pending rides run
\* concurrently.
C34_OneAcceptedRidePerDriver ==
    \A d \in Drivers : Cardinality(HeldRides(d)) <= 1

\* C35: for every user, completed_rides equals the number of rides in status
\* completed in which that user is the passenger or the driver (each
\* completed ride counts once for each participant, also when complete is
\* invoked twice or concurrently), and no step decreases a counter.
C35_CompletedRidesCount ==
    [][\A u \in Users :
          /\ completed'[u] =
                Cardinality({r \in 1..Len(rides') :
                                /\ rides'[r].status = "completed"
                                /\ u \in {rides'[r].passenger, rides'[r].driver}})
          /\ completed'[u] >= completed[u]
      ]_vars

\* C36: a ride_offer is pushed only to a driver whose DriverProfile.status is
\* available at that moment: a driver who became busy or offline after the
\* queue was built is not sent the offer.
C36_DispatchOnlyAvailable ==
    [][\A m \in out' :
          (m.grp = "driver" /\ m.type = "ride_offer") => profiles'[m.id] = "available"
      ]_vars

\* C37: the presence index agrees with the database on availability: while a
\* driver's DriverProfile.status is busy with an accepted ride, a nearby query
\* with status_filter = available does not return that driver and the
\* snapshot of a subscription does not hold that driver, also after the
\* driver sent further location updates.
C37_BusyNotNearby ==
    \A d \in Drivers :
        (profiles[d] = "busy" /\ HeldRides(d) # {})
        => /\ \A c \in FanCentres, r \in FanRadii :
                d \notin get_nearby_drivers(c.lat, c.lon, r, "available")
           /\ report.op = "subscribe" => \A m \in delivered : m.driver # d

\* C38: a subscription, or a driver's presence entry, registered through a
\* live channel is removed only by an unsubscribe or a disconnect of that same
\* channel or by a status change: when a party reconnects and the disconnect
\* of its older channel is processed after the new channel subscribed, the
\* new channel's subscription (or presence entry) is still there.
C38_RemovedBySameChannel ==
    [][/\ \A p \in Passengers :
            (subs[p] # NoSub /\ subs[p].channel \in conns /\ subs'[p] = NoSub)
                => \/ disconnect(subs[p].channel)
                   \/ handle_unsubscribe_nearby(subs[p].channel)
       /\ \A d \in Drivers :
            (index[d] # NoEntry /\ written_by[d] \in conns /\ index'[d] = NoEntry)
                => \/ disconnect(written_by[d])
                   \/ report'.op = "status"
      ]_vars

\* C39: suppressed small movements do not accumulate: after any sequence of
\* non-forced location updates of a driver that are not rate-limited, the
\* position stored in the index is less than MIN_UPDATE_DISTANCE_METERS
\* (10 m) away from the last position that was broadcast for the driver.
C39_NoDrift ==
    \A d \in Drivers :
        track[d].set =>
            (track[d].stored - track[d].sent) * (track[d].stored - track[d].sent)
                < MinUpdateDistance * MinUpdateDistance

\* C40: only participants of a ride can use its ride group: a channel joins
\* ride_<id> only if its user is the ride's passenger or assigned driver, and
\* a driver_track_location event is published into ride_<id> only by the
\* driver assigned to that ride (a tracking_update of any other driver is
\* refused).
C40_RideGroupParticipantsOnly ==
    [][/\ \A ch \in Channels, r \in RideIds :
            (<<<<"ride", r>>, ch>> \notin groups /\ <<<<"ride", r>>, ch>> \in groups')
                => /\ RideExists(r)
                   /\ ch[2] \in {rides[r].passenger, rides[r].driver}
       /\ \A ch \in Channels, r \in TrackRides :
            (/\ handle_tracking_update(ch, r, TrackPoint.lat, TrackPoint.lon)
             /\ ~(RideExists(r) /\ rides[r].driver = ch[2]))
                => /\ ~report'.broadcasted
                   /\ delivered' = {}
      ]_vars

====
